---- MODULE Spec2Model ----
(***************************************************************************)
(* A model of hp3478a.py, the HP 3478A bench meter driver: the decoding of *)
(* the meter's 5-byte binary status block, the encoding of settings into   *)
(* command strings written to the GPIB bus, and the two shadow fields      *)
(* (_textmode, _srq_mask) the driver object keeps.                         *)
(*                                                                         *)
(* The bus is the external collaborator (gpib.generic488.Device488): it is *)
(* modelled by the log of the commands written to it (bus), the log of the *)
(* replies read from it (rx), and the status block the meter would send    *)
(* in reply to 'B' (dev), which changes without the driver's doing.        *)
(***************************************************************************)
EXTENDS Integers, Sequences, FiniteSets, TLC

VARIABLES
    textmode,   \* self._textmode
    srq_mask,   \* self._srq_mask
    dev,        \* the meter's status block: what a read after 'B' returns
    bus,        \* the commands written to the bus, oldest first
    rx,         \* the replies read from the bus, oldest first
    ncalls,     \* the number of driver calls made since construction
    call,       \* the last driver call: [op, arg]
    result      \* its outcome: [raised, value]

vars == <<textmode, srq_mask, dev, bus, rx, ncalls, call, result>>

(***************************************************************************)
(* Bounds of the model.                                                    *)
(***************************************************************************)
\* driver calls per behaviour of Spec
MaxCalls == 2
\* getter calls per behaviour of SpecDecode
MaxDecodeCalls == 2
\* setter calls per behaviour of SpecEncode
MaxEncodeCalls == 1

(***************************************************************************)
(* Values.                                                                 *)
(***************************************************************************)
Byte == 0..255

\* Python's None, as a call's argument or return value
None == "None"

\* A call's outcome: a returned value, or a raised exception.
Returns(v) == [raised |-> "", value |-> v]
Raises(e) == [raised |-> e, value |-> None]

\* A decimal number whole + milli/1000 with milli in 0..999 (the numbers a
\* caller passes as range), and the string a caller may pass instead.
Num(w, m) == [kind |-> "num", str |-> "", whole |-> w, milli |-> m]
Str(s) == [kind |-> "str", str |-> s, whole |-> 0, milli |-> 0]

\* a <= b on decimal numbers
LessEq(a, b) == a.whole < b.whole \/ (a.whole = b.whole /\ a.milli <= b.milli)

\* The float 3 * 10 ** exp
ThreeE(exp) == [mant |-> 3, exp |-> exp]

(***************************************************************************)
(* Bit and string helpers.                                                 *)
(***************************************************************************)
\* value & (1 << bitnum) is non-zero
bit_is_set(value, bitnum) == (value \div (2 ^ bitnum)) % 2 = 1

\* value >> n
shr(value, n) == value \div (2 ^ n)

Digit == <<"0", "1", "2", "3", "4", "5", "6", "7", "8", "9">>

\* the digits of n >= 0 in the given base
RECURSIVE digits(_, _)
digits(n, base) ==
    IF n < base THEN Digit[n + 1]
    ELSE digits(n \div base, base) \o Digit[(n % base) + 1]

\* the string right-justified in a field of the given width, filled with spaces
RECURSIVE rjust(_, _)
rjust(s, width) == IF Len(s) >= width THEN s ELSE rjust(" " \o s, width)

\* "{:d}".format(n)
format_d(n) == IF n < 0 THEN "-" \o digits(-n, 10) ELSE digits(n, 10)

\* "{:2o}".format(n): octal, minimum width 2; a number is right-aligned and
\* the fill character is a space
format_2o(n) == rjust(IF n < 0 THEN "-" \o digits(-n, 8) ELSE digits(n, 8), 2)

\* The characters of codes 32..95, in code order.
Chr ==
    <<" ", "!", "\"", "#", "$", "%", "&", "'", "(", ")", "*", "+", ",", "-", ".", "/",
      "0", "1", "2", "3", "4", "5", "6", "7", "8", "9", ":", ";", "<", "=", ">", "?",
      "@", "A", "B", "C", "D", "E", "F", "G", "H", "I", "J", "K", "L", "M", "N", "O",
      "P", "Q", "R", "S", "T", "U", "V", "W", "X", "Y", "Z", "[", "\\", "]", "^", "_">>

\* "{:s}".format(value) for a text given by its character codes, all in 32..95
RECURSIVE format_s(_)
format_s(value) ==
    IF value = <<>> THEN ""
    ELSE Chr[Head(value) - 31] \o format_s(Tail(value))

\* list.index(value) when value is in the list: the first position, from 0
index(list, value) ==
    CHOOSE i \in 0..(Len(list) - 1) :
        /\ list[i + 1] = value
        /\ \A j \in 0..(i - 1) : list[j + 1] # value

\* value in list
contains(list, value) == \E i \in 1..Len(list) : list[i] = value

\* list[i] for -len(list) <= i < len(list): a negative index counts from the end
getitem(list, i) == IF i >= 0 THEN list[i + 1] ELSE list[Len(list) + i + 1]

(***************************************************************************)
(* The class tables.                                                       *)
(***************************************************************************)
functions == <<"VDC", "VAC", "RTW", "RFW", "IDC", "IAC", "REX">>

triggers == <<"I", "E", "S", "H", "F">>

(***************************************************************************)
(* The views of a status block bstat (bstat[i] of the code is bstat[i+1]). *)
(***************************************************************************)
\* decode_status with the flags above bit 4 read one bit too high
decode_status_shifted(bstat) ==
    [ext_trigger |-> bit_is_set(bstat[2], 7),
     cal_ram     |-> bit_is_set(bstat[2], 6),
     front       |-> bit_is_set(bstat[2], 4),
     hz50        |-> bit_is_set(bstat[2], 3),
     autozero    |-> bit_is_set(bstat[2], 2),
     autorange   |-> bit_is_set(bstat[2], 1),
     int_trigger |-> bit_is_set(bstat[2], 0)]

decode_status(bstat) ==
    [ext_trigger |-> bit_is_set(bstat[2], 6),
     cal_ram     |-> bit_is_set(bstat[2], 5),
     front       |-> bit_is_set(bstat[2], 4),
     hz50        |-> bit_is_set(bstat[2], 3),
     autozero    |-> bit_is_set(bstat[2], 2),
     autorange   |-> bit_is_set(bstat[2], 1),
     int_trigger |-> bit_is_set(bstat[2], 0)]

decode_srq(bstat) ==
    [pon_srq        |-> bit_is_set(bstat[3], 7),
     cal_failed     |-> bit_is_set(bstat[3], 5),
     keyboard_srq   |-> bit_is_set(bstat[3], 4),
     hardware_error |-> bit_is_set(bstat[3], 3),
     syntax_error   |-> bit_is_set(bstat[3], 2),
     available      |-> bit_is_set(bstat[3], 0)]

decode_error(bstat) ==
    [adc_link_error        |-> bit_is_set(bstat[4], 5),
     adc_selftest_error    |-> bit_is_set(bstat[4], 4),
     adc_slope_error       |-> bit_is_set(bstat[4], 3),
     rom_selftest_error    |-> bit_is_set(bstat[4], 2),
     ram_selftest_error    |-> bit_is_set(bstat[4], 1),
     calram_checksum_error |-> bit_is_set(bstat[4], 0)]

decode_function(bstat) == getitem(functions, shr(bstat[1], 5) - 1)

\* decode_range with the offset of DC volts applied to AC volts as well
decode_range_volts(bstat) ==
    LET exp_val == shr(bstat[1], 2) % 8
        func == shr(bstat[1], 5)
    IN  IF func \in {1, 2} THEN ThreeE(exp_val - 3)
        ELSE IF func \in {5, 6} THEN ThreeE(exp_val - 2)
        ELSE ThreeE(exp_val)

decode_range(bstat) ==
    LET exp_val == shr(bstat[1], 2) % 8
        func == shr(bstat[1], 5)
    IN  IF func = 1 THEN ThreeE(exp_val - 3)
        ELSE IF func \in {2, 5, 6} THEN ThreeE(exp_val - 2)
        ELSE ThreeE(exp_val)

decode_resolution(bstat) ==
    LET r_val == bstat[1] % 4
    IN  IF r_val = 1 THEN 5 ELSE IF r_val = 2 THEN 4 ELSE 3

\* decode_trigger testing the internal trigger bit first
decode_trigger_internal_first(bstat) ==
    IF bit_is_set(bstat[2], 0) THEN "I"
    ELSE IF bit_is_set(bstat[2], 6) THEN "E"
    ELSE "H"

decode_trigger(bstat) ==
    IF bit_is_set(bstat[2], 6) THEN "E"
    ELSE IF bit_is_set(bstat[2], 0) THEN "I"
    ELSE "H"

decode_autozero(bstat) == (shr(bstat[2], 2) % 2) # 0

(***************************************************************************)
(* Construction.                                                           *)
(***************************************************************************)
\* The state after HP3478A(...), whatever the meter's status block is.
Constructed(blocks) ==
    /\ textmode = 2
    /\ srq_mask = 0
    /\ bus = <<"M00">>
    /\ rx = <<>>
    /\ ncalls = 0
    /\ call = [op |-> "__init__", arg |-> None]
    /\ result = Returns(None)
    /\ dev \in blocks

(***************************************************************************)
(* Steps shared by the calls.                                              *)
(***************************************************************************)
\* self.write(command)
write(command) == bus' = Append(bus, command)

\* the call op(arg) ends with the given outcome
Called(op, arg, outcome) ==
    /\ call' = [op |-> op, arg |-> arg]
    /\ result' = outcome
    /\ ncalls' = ncalls + 1

\* self._bstatus: write 'B', read the reply, unpack it; the meter replies
\* with its current status block
bstatus ==
    /\ write("B")
    /\ rx' = Append(rx, dev)
    /\ UNCHANGED <<textmode, srq_mask, dev>>

(***************************************************************************)
(* The read-only views: each fetches the status block and decodes it.      *)
(***************************************************************************)
status == bstatus /\ Called("status", None, Returns(decode_status(dev)))

srq == bstatus /\ Called("srq", None, Returns(decode_srq(dev)))

error == bstatus /\ Called("error", None, Returns(decode_error(dev)))

function == bstatus /\ Called("function", None, Returns(decode_function(dev)))

range == bstatus /\ Called("range", None, Returns(decode_range(dev)))

resolution == bstatus /\ Called("resolution", None, Returns(decode_resolution(dev)))

trigger == bstatus /\ Called("trigger", None, Returns(decode_trigger(dev)))

\* autozero answering from the status block another view has just fetched
autozero_cached ==
    IF rx # <<>> /\ bus[Len(bus)] = "B"
    THEN /\ Called("autozero", None, Returns(decode_autozero(rx[Len(rx)])))
         /\ UNCHANGED <<textmode, srq_mask, dev, bus, rx>>
    ELSE bstatus /\ Called("autozero", None, Returns(decode_autozero(dev)))

autozero == bstatus /\ Called("autozero", None, Returns(decode_autozero(dev)))

(***************************************************************************)
(* The setters.                                                            *)
(***************************************************************************)
\* rval with the first bracket's upper bound exclusive
rval_exclusive(value) ==
    IF ~LessEq(Num(0, 30), value) THEN -2
    ELSE IF LessEq(value, Num(0, 300)) THEN -1
    ELSE IF LessEq(value, Num(3, 0)) THEN 0
    ELSE IF LessEq(value, Num(30, 0)) THEN 1
    ELSE IF LessEq(value, Num(300, 0)) THEN 2
    ELSE IF LessEq(value, Num(3000, 0)) THEN 3
    ELSE IF LessEq(value, Num(30000, 0)) THEN 4
    ELSE IF LessEq(value, Num(300000, 0)) THEN 5
    ELSE IF LessEq(value, Num(3000000, 0)) THEN 6
    ELSE 7

\* the bracket the range setter picks for a number
rval(value) ==
    IF LessEq(value, Num(0, 30)) THEN -2
    ELSE IF LessEq(value, Num(0, 300)) THEN -1
    ELSE IF LessEq(value, Num(3, 0)) THEN 0
    ELSE IF LessEq(value, Num(30, 0)) THEN 1
    ELSE IF LessEq(value, Num(300, 0)) THEN 2
    ELSE IF LessEq(value, Num(3000, 0)) THEN 3
    ELSE IF LessEq(value, Num(30000, 0)) THEN 4
    ELSE IF LessEq(value, Num(300000, 0)) THEN 5
    ELSE IF LessEq(value, Num(3000000, 0)) THEN 6
    ELSE 7

\* text_ok with the upper limit exclusive
text_ok_below_95(value) == \A i \in 1..Len(value) : ~(value[i] < 32 \/ value[i] >= 95)

\* no character of the text is below 32 or above 95
text_ok(value) == \A i \in 1..Len(value) : ~(value[i] < 32 \/ value[i] > 95)

function_setter(value) ==
    /\ IF contains(functions, value)
       THEN /\ write("F" \o format_d(index(functions, value) + 1))
            /\ Called("function.setter", value, Returns(None))
       ELSE /\ UNCHANGED bus
            /\ Called("function.setter", value, Raises("ValueError"))
    /\ UNCHANGED <<textmode, srq_mask, dev, rx>>

range_setter(value) ==
    /\ IF value = Str("AUTO")
       THEN write("RA")
       ELSE write("R" \o format_d(rval(value)))
    /\ Called("range.setter", value, Returns(None))
    /\ UNCHANGED <<textmode, srq_mask, dev, rx>>

\* resolution_setter writing the command before it validates the value
resolution_setter_writes_first(value) ==
    /\ write("N" \o format_d(value))
    /\ Called("resolution.setter", value,
              IF 3 <= value /\ value <= 5 THEN Returns(None) ELSE Raises("ValueError"))
    /\ UNCHANGED <<textmode, srq_mask, dev, rx>>

resolution_setter(value) ==
    /\ IF 3 <= value /\ value <= 5
       THEN /\ write("N" \o format_d(value))
            /\ Called("resolution.setter", value, Returns(None))
       ELSE /\ UNCHANGED bus
            /\ Called("resolution.setter", value, Raises("ValueError"))
    /\ UNCHANGED <<textmode, srq_mask, dev, rx>>

trigger_setter(value) ==
    /\ IF contains(triggers, value)
       THEN /\ write("T" \o format_d(index(triggers, value) + 1))
            /\ Called("trigger.setter", value, Returns(None))
       ELSE /\ UNCHANGED bus
            /\ Called("trigger.setter", value, Raises("ValueError"))
    /\ UNCHANGED <<textmode, srq_mask, dev, rx>>

autozero_setter(value) ==
    /\ IF value THEN write("Z1") ELSE write("Z0")
    /\ Called("autozero.setter", value, Returns(None))
    /\ UNCHANGED <<textmode, srq_mask, dev, rx>>

text_setter(value) ==
    /\ IF text_ok(value)
       THEN /\ write("D" \o format_d(textmode) \o format_s(value) \o "\n")
            /\ Called("text.setter", value, Returns(None))
       ELSE /\ UNCHANGED bus
            /\ Called("text.setter", value, Raises("ValueError"))
    /\ UNCHANGED <<textmode, srq_mask, dev, rx>>

\* textmode_setter storing the value before it validates it
textmode_setter_stores_first(value) ==
    /\ textmode' = value
    /\ Called("textmode.setter", value,
              IF 2 <= value /\ value <= 3 THEN Returns(None) ELSE Raises("ValueError"))
    /\ UNCHANGED <<srq_mask, dev, bus, rx>>

textmode_setter(value) ==
    /\ IF 2 <= value /\ value <= 3
       THEN /\ textmode' = value
            /\ Called("textmode.setter", value, Returns(None))
       ELSE /\ UNCHANGED textmode
            /\ Called("textmode.setter", value, Raises("ValueError"))
    /\ UNCHANGED <<srq_mask, dev, bus, rx>>

srq_mask_setter(value) ==
    /\ srq_mask' = value
    /\ write("M" \o format_2o(value))
    /\ Called("srq_mask.setter", value, Returns(None))
    /\ UNCHANGED <<textmode, dev, rx>>

(***************************************************************************)
(* The other calls.                                                        *)
(***************************************************************************)
srq_clear ==
    /\ write("K")
    /\ Called("srq_clear", None, Returns(None))
    /\ UNCHANGED <<textmode, srq_mask, dev, rx>>

normal_display ==
    /\ write("D1")
    /\ Called("normal_display", None, Returns(None))
    /\ UNCHANGED <<textmode, srq_mask, dev, rx>>

calibrate ==
    /\ write("C")
    /\ Called("calibrate", None, Returns(None))
    /\ UNCHANGED <<textmode, srq_mask, dev, rx>>

\* float(self.read()): the meter's reply is the text of a number, or is not
reading(reply) ==
    /\ rx' = Append(rx, reply)
    /\ Called("reading", None,
              IF reply.kind = "num" THEN Returns(reply) ELSE Raises("ValueError"))
    /\ UNCHANGED <<textmode, srq_mask, dev, bus>>

\* the text getter
text ==
    /\ Called("text", None, Returns(None))
    /\ UNCHANGED <<textmode, srq_mask, dev, bus, rx>>

\* the textmode getter
get_textmode ==
    /\ Called("textmode", None, Returns(textmode))
    /\ UNCHANGED <<textmode, srq_mask, dev, bus, rx>>

\* the srq_mask getter
get_srq_mask ==
    /\ Called("srq_mask", None, Returns(srq_mask))
    /\ UNCHANGED <<textmode, srq_mask, dev, bus, rx>>

(***************************************************************************)
(* Spec: a driver object in use, and a meter whose status block changes    *)
(* under it (front-panel keys, the commands taking effect).                *)
(***************************************************************************)
\* Status blocks of the meter: function fields 1, 6, 0 and 3; trigger bits
\* internal, external and internal, external, none.
Blocks == {<<37, 1, 0, 0, 0>>, <<222, 65, 16, 1, 0>>, <<19, 64, 0, 0, 0>>, <<98, 0, 0, 0, 0>>}

FunctionArgs == {"VDC", "REX", "OHM"}

RangeArgs == {Str("AUTO"), Num(0, 31), Num(5000000, 0)}

ResolutionArgs == {2, 5}

TriggerArgs == {"S", "F", "X"}

TextArgs == {<<>>, <<72, 73>>, <<32, 95>>, <<65, 31>>, <<96, 65>>}

TextmodeArgs == {1, 2, 3, 4}

SrqMaskArgs == {0, 5, 8}

Replies == {Num(1, 500), Str("")}

\* the meter's status block changes
DeviceChange ==
    /\ dev' \in Blocks \ {dev}
    /\ UNCHANGED <<textmode, srq_mask, bus, rx, ncalls, call, result>>

Init == Constructed(Blocks)

Call == ncalls < MaxCalls

Next ==
    \/ Call /\ status
    \/ Call /\ srq
    \/ Call /\ error
    \/ Call /\ function
    \/ Call /\ range
    \/ Call /\ resolution
    \/ Call /\ trigger
    \/ Call /\ autozero
    \/ \E value \in FunctionArgs : Call /\ function_setter(value)
    \/ \E value \in RangeArgs : Call /\ range_setter(value)
    \/ \E value \in ResolutionArgs : Call /\ resolution_setter(value)
    \/ \E value \in TriggerArgs : Call /\ trigger_setter(value)
    \/ \E value \in BOOLEAN : Call /\ autozero_setter(value)
    \/ \E value \in TextArgs : Call /\ text_setter(value)
    \/ \E value \in TextmodeArgs : Call /\ textmode_setter(value)
    \/ \E value \in SrqMaskArgs : Call /\ srq_mask_setter(value)
    \/ Call /\ srq_clear
    \/ Call /\ normal_display
    \/ Call /\ calibrate
    \/ \E reply \in Replies : Call /\ reading(reply)
    \/ Call /\ text
    \/ Call /\ get_textmode
    \/ Call /\ get_srq_mask
    \/ DeviceChange

Spec == Init /\ [][Next]_vars

(***************************************************************************)
(* SpecDecode: the views, read from every status block of DecodeBlocks,    *)
(* between trigger commands.                                               *)
(***************************************************************************)
\* Status blocks: every byte 0 with a few bytes 1, every byte 1 with a few
\* bytes 0, and every byte 2 and byte 3 of one block.
DecodeBlocks ==
    {<<b0, b1, 0, 0, 0>> : b0 \in Byte, b1 \in {0, 2, 65, 85}}
    \cup {<<b0, b1, 0, 0, 0>> : b0 \in {0, 37, 222}, b1 \in Byte}
    \cup {<<37, 85, b, b, 255>> : b \in Byte}

InitDecode == Constructed(DecodeBlocks)

DecodeCall == ncalls < MaxDecodeCalls

NextDecode ==
    \/ DecodeCall /\ status
    \/ DecodeCall /\ srq
    \/ DecodeCall /\ error
    \/ DecodeCall /\ function
    \/ DecodeCall /\ range
    \/ DecodeCall /\ resolution
    \/ DecodeCall /\ trigger
    \/ DecodeCall /\ autozero
    \/ \E value \in TriggerArgs : DecodeCall /\ trigger_setter(value)

SpecDecode == InitDecode /\ [][NextDecode]_vars

(***************************************************************************)
(* SpecEncode: the setters, called on a new driver object with every       *)
(* argument of the sets below.                                             *)
(***************************************************************************)
AllFunctionArgs == {"VDC", "VAC", "RTW", "RFW", "IDC", "IAC", "REX", "OHM", "vdc", ""}

AllRangeArgs ==
    {Str("AUTO"), Num(-1, 0), Num(0, 0), Num(0, 29), Num(0, 30), Num(0, 31),
     Num(0, 300), Num(0, 301), Num(2, 999), Num(3, 0), Num(3, 100), Num(30, 0),
     Num(30, 1), Num(300, 0), Num(300, 500), Num(3000, 0), Num(3001, 0),
     Num(30000, 0), Num(30000, 1), Num(300000, 0), Num(300001, 0),
     Num(3000000, 0), Num(3000000, 1), Num(5000000, 0)}

AllResolutionArgs == -1..8

AllTriggerArgs == {"I", "E", "S", "H", "F", "X", "i", ""}

\* the character codes texts are made of
Codes == {31, 32, 65, 95, 96}

AllTextArgs == {<<>>} \cup {<<c>> : c \in Codes} \cup {<<c, d>> : c, d \in Codes}

AllTextmodeArgs == 0..5

AllSrqMaskArgs == 0..63

InitEncode == Constructed(Blocks)

EncodeCall == ncalls < MaxEncodeCalls

NextEncode ==
    \/ \E value \in AllFunctionArgs : EncodeCall /\ function_setter(value)
    \/ \E value \in AllRangeArgs : EncodeCall /\ range_setter(value)
    \/ \E value \in AllResolutionArgs : EncodeCall /\ resolution_setter(value)
    \/ \E value \in AllTriggerArgs : EncodeCall /\ trigger_setter(value)
    \/ \E value \in BOOLEAN : EncodeCall /\ autozero_setter(value)
    \/ \E value \in AllTextArgs : EncodeCall /\ text_setter(value)
    \/ \E value \in AllTextmodeArgs : EncodeCall /\ textmode_setter(value)
    \/ \E value \in AllSrqMaskArgs : EncodeCall /\ srq_mask_setter(value)

SpecEncode == InitEncode /\ [][NextEncode]_vars

(***************************************************************************)
(* The properties.  A step is a call when it changes ncalls; call' and     *)
(* result' then name the call made and its outcome.                        *)
(***************************************************************************)
IsCall == ncalls' # ncalls

\* the names of the views that decode the status block
Views ==
    {"status", "srq", "error", "function", "range", "resolution", "trigger", "autozero"}

\* what the view op makes of a status block
decode(op, bstat) ==
    CASE op = "status" -> decode_status(bstat)
      [] op = "srq" -> decode_srq(bstat)
      [] op = "error" -> decode_error(bstat)
      [] op = "function" -> decode_function(bstat)
      [] op = "range" -> decode_range(bstat)
      [] op = "resolution" -> decode_resolution(bstat)
      [] op = "trigger" -> decode_trigger(bstat)
      [] op = "autozero" -> decode_autozero(bstat)

\* the arguments a setter has to reject
InvalidArg(c) ==
    CASE c.op = "resolution.setter" -> c.arg < 3 \/ c.arg > 5
      [] c.op = "text.setter" -> \E i \in 1..Len(c.arg) : c.arg[i] \notin 32..95
      [] c.op = "function.setter" ->
            c.arg \notin {"VDC", "VAC", "RTW", "RFW", "IDC", "IAC", "REX"}
      [] c.op = "trigger.setter" -> c.arg \notin {"I", "E", "S", "H", "F"}
      [] c.op = "textmode.setter" -> c.arg \notin 2..3
      [] OTHER -> FALSE

\* C1: a setter call that receives invalid input (resolution outside 3..5,
\* a text with a character code outside 32..95, an unknown function name or
\* trigger letter, a text mode outside 2..3) raises ValueError and leaves
\* the sequence of commands written to the bus as it was.
C1_InvalidInputWritesNothing ==
    [][IsCall /\ InvalidArg(call') =>
          result'.raised = "ValueError" /\ bus' = bus]_vars

\* a resolution of 6 was rejected and nothing followed 'M00' on the bus
C1_Witness ==
    /\ call = [op |-> "resolution.setter", arg |-> 6]
    /\ result.raised = "ValueError"
    /\ bus = <<"M00">>

\* the blocks that differ from bstat in the given bit of byte 1 only
DifferInBit(bstat, bitnum) ==
    {b \in DecodeBlocks :
        /\ b # bstat
        /\ b[1] = bstat[1] /\ b[3] = bstat[3] /\ b[4] = bstat[4] /\ b[5] = bstat[5]
        /\ \A k \in 0..7 : k # bitnum =>
              ((b[2] \div (2 ^ k)) % 2 = (bstat[2] \div (2 ^ k)) % 2)}

\* C2 as stated: byte 1 = 0b01010101 decodes to ext_trigger = False, and the
\* flags do not depend on bit 5 of byte 1.
C2_Original ==
    call.op = "status" =>
        /\ dev[2] = 85 =>
              result.value =
                  [int_trigger |-> TRUE, autorange |-> FALSE, autozero |-> TRUE,
                   hz50 |-> FALSE, front |-> TRUE, cal_ram |-> FALSE,
                   ext_trigger |-> FALSE]
        /\ \A b \in DifferInBit(dev, 5) : decode_status(b) = result.value

\* C2, amended: the seven flags are bits 0..6 of byte 1 (int_trigger,
\* autorange, autozero, 50hz, front, cal_ram, ext_trigger in that order), so
\* byte 1 = 0b01010101 decodes to ext_trigger = True with cal_ram = False;
\* bit 7 is the unused one: blocks that differ only in it decode alike.
C2_StatusFlags ==
    call.op = "status" =>
        /\ result =
              Returns([int_trigger |-> dev[2] % 2 = 1,
                       autorange   |-> (dev[2] \div 2) % 2 = 1,
                       autozero    |-> (dev[2] \div 4) % 2 = 1,
                       hz50        |-> (dev[2] \div 8) % 2 = 1,
                       front       |-> (dev[2] \div 16) % 2 = 1,
                       cal_ram     |-> (dev[2] \div 32) % 2 = 1,
                       ext_trigger |-> (dev[2] \div 64) % 2 = 1])
        /\ dev[2] = 85 =>
              result.value =
                  [int_trigger |-> TRUE, autorange |-> FALSE, autozero |-> TRUE,
                   hz50 |-> FALSE, front |-> TRUE, cal_ram |-> FALSE,
                   ext_trigger |-> TRUE]
        /\ \A b \in DifferInBit(dev, 7) : decode_status(b) = result.value

\* status was read from a block whose byte 1 is 0b01010101
C2_Witness ==
    /\ call.op = "status"
    /\ dev[2] = 85
    /\ result.value.ext_trigger
    /\ ~result.value.cal_ram

\* C3: reading the function returns functions[(byte0 >> 5) - 1] when that
\* index is in 0..6 and fails when it is not (function field 0).
C3_Original ==
    call.op = "function" =>
        LET idx == (dev[1] \div 32) - 1
        IN  IF idx \in 0..6
            THEN result = Returns(functions[idx + 1])
            ELSE result.raised # ""

\* C4: setting the SRQ mask to n in 0..63 stores n and writes the one
\* command 'M' followed by n as two octal digits, zero-padded.
C4_Original ==
    [][IsCall /\ call'.op = "srq_mask.setter" =>
          /\ srq_mask' = call'.arg
          /\ bus' = Append(bus, "M" \o Digit[(call'.arg \div 8) + 1]
                                    \o Digit[(call'.arg % 8) + 1])]_vars

\* the upper bounds of the range brackets, and the command of each bracket
Brackets ==
    <<Num(0, 30), Num(0, 300), Num(3, 0), Num(30, 0), Num(300, 0), Num(3000, 0),
      Num(30000, 0), Num(300000, 0), Num(3000000, 0)>>

RangeCommands == <<"R-2", "R-1", "R0", "R1", "R2", "R3", "R4", "R5", "R6", "R7">>

\* the position of the smallest bracket >= v, past the last one if there is none
Bracket(v) ==
    IF \E i \in 1..Len(Brackets) : LessEq(v, Brackets[i])
    THEN CHOOSE i \in 1..Len(Brackets) :
            /\ LessEq(v, Brackets[i])
            /\ \A j \in 1..(i - 1) : ~LessEq(v, Brackets[j])
    ELSE Len(Brackets) + 1

\* C5: setting the range to a number v writes 'R<i>', i the index (-2..6) of
\* the smallest bracket >= v, or 7 when v exceeds 3e6; 0.03, 0.031, 3, 3.1,
\* 3000000, 5000000 select -2, -1, 0, 1, 6, 7; 'AUTO' writes 'RA'; the index
\* written for v is at most the one selected for any w >= v.
C5_RangeBrackets ==
    [][IsCall /\ call'.op = "range.setter" =>
          LET v == call'.arg
              Wrote(command) == bus' = Append(bus, command)
          IN  /\ result' = Returns(None)
              /\ IF v = Str("AUTO")
                 THEN Wrote("RA")
                 ELSE /\ Wrote(RangeCommands[Bracket(v)])
                      /\ v = Num(0, 30) => Wrote("R-2")
                      /\ v = Num(0, 31) => Wrote("R-1")
                      /\ v = Num(3, 0) => Wrote("R0")
                      /\ v = Num(3, 100) => Wrote("R1")
                      /\ v = Num(3000000, 0) => Wrote("R6")
                      /\ v = Num(5000000, 0) => Wrote("R7")
                      /\ \A w \in AllRangeArgs :
                            w.kind = "num" /\ LessEq(v, w) =>
                                Bracket(v) - 3 <= rval(w)]_vars

\* the range was set to 0.03, on the boundary of the first bracket
C5_Witness ==
    /\ call = [op |-> "range.setter", arg |-> Num(0, 30)]
    /\ bus = <<"M00", "R-2">>

\* C6: reading the range returns 3 * 10^k, k = ((byte0 >> 2) & 7) - offset,
\* offset 3 for function field 1, 2 for 2, 5 and 6, and 0 otherwise, whatever
\* the autorange bit of byte 1 is.
C6_RangeReadback ==
    call.op = "range" =>
        LET field == (dev[1] \div 4) % 8
            func == dev[1] \div 32
            offset == IF func = 1 THEN 3 ELSE IF func \in {2, 5, 6} THEN 2 ELSE 0
        IN  /\ result = Returns([mant |-> 3, exp |-> field - offset])
            /\ result.value.mant = 3

\* the range of AC volts was read while the autorange bit was set
C6_Witness ==
    /\ call.op = "range"
    /\ dev[1] \div 32 = 2
    /\ (dev[2] \div 2) % 2 = 1
    /\ result.value = ThreeE(((dev[1] \div 4) % 8) - 2)

\* C7: reading the trigger returns External if bit 6 of byte 1 is set,
\* otherwise Internal if bit 0 is set, otherwise Hold, and never Single or
\* Fast, also after 'T3' or 'T5' was written.
C7_TriggerReadback ==
    call.op = "trigger" =>
        /\ result =
              Returns(IF (dev[2] \div 64) % 2 = 1 THEN "E"
                      ELSE IF dev[2] % 2 = 1 THEN "I"
                      ELSE "H")
        /\ result.value \notin {"S", "F"}

\* the trigger was read after a Single or Fast command, bits 6 and 0 both set
C7_Witness ==
    /\ call.op = "trigger"
    /\ \E i \in 1..Len(bus) : bus[i] \in {"T3", "T5"}
    /\ dev[2] = 65
    /\ result.value = "E"

\* C8: the shadow fields start as 0 and 2; the SRQ mask changes only in a
\* call of its setter and the text mode only in a call of its setter; a
\* text-mode setter call with a value outside 2..3 is rejected and leaves
\* the text mode as it was; the text mode is always 2 or 3.
C8_ShadowFrame ==
    /\ srq_mask = 0 /\ textmode = 2
    /\ [][/\ srq_mask' # srq_mask => IsCall /\ call'.op = "srq_mask.setter"
          /\ textmode' # textmode => IsCall /\ call'.op = "textmode.setter"
          /\ IsCall /\ call'.op = "textmode.setter" /\ call'.arg \notin 2..3 =>
                textmode' = textmode /\ result'.raised = "ValueError"]_vars
    /\ [](textmode \in {2, 3})

\* the text mode was set to 3 and a later value of 4 was rejected
C8_Witness ==
    /\ call = [op |-> "textmode.setter", arg |-> 4]
    /\ result.raised = "ValueError"
    /\ textmode = 3

\* C9: a text is accepted exactly when all its character codes are in
\* 32..95; accepted, it is written as the one command 'D' + m + text +
\* newline, m the text mode in force (2 unless the setter changed it).
C9_TextCommand ==
    [][IsCall /\ call'.op = "text.setter" =>
          LET s == call'.arg
          IN  IF \A i \in 1..Len(s) : s[i] \in 32..95
              THEN /\ result' = Returns(None)
                   /\ bus' = Append(bus, "D" \o (IF textmode = 3 THEN "3" ELSE "2")
                                             \o format_s(s) \o "\n")
                   /\ ncalls = 0 => textmode = 2
                   /\ call.op = "textmode.setter" /\ result.raised = "" =>
                         textmode = call.arg
              ELSE /\ result'.raised = "ValueError"
                   /\ bus' = bus]_vars

\* a text with codes 32 and 95 was written after the text mode was set to 3
C9_Witness ==
    /\ call = [op |-> "text.setter", arg |-> <<32, 95>>]
    /\ textmode = 3
    /\ bus = <<"M00", "D3 _\n">>

\* C10: a read of a view writes 'B' once, reads the reply once, and returns
\* what the view makes of that reply, which is the meter's status block at
\* the time of the read.
C10_ViewsFetchFresh ==
    [][IsCall /\ call'.op \in Views =>
          /\ bus' = Append(bus, "B")
          /\ rx' = Append(rx, dev)
          /\ result' = Returns(decode(call'.op, rx'[Len(rx')]))]_vars

\* two views were read, the status block changed in between, and the second
\* read, of the function, returned the function of the new block
C10_Witness ==
    /\ call.op = "function"
    /\ bus = <<"M00", "B", "B">>
    /\ Len(rx) = 2
    /\ rx[1] # rx[2]
    /\ decode_function(rx[1]) = "VDC"
    /\ result.value = "IAC"

====
